---- MODULE Spec2Model ----
(***************************************************************************)
(* Alina voice assistant: the /alina/voice and /alina/cancel handlers of   *)
(* backend/alina_server.py, the primary pipeline                           *)
(* AlinaAssistant.handle_user_audio of backend/assistant/alina.py and the  *)
(* stateless _fallback_pipeline.                                           *)
(*                                                                         *)
(* The three remote adapters (stt, llm, tts) are external: a call is in    *)
(* flight while pc[r] names it, and it ends by returning a value or by     *)
(* raising.  Everything the code does between two adapter calls is one     *)
(* step.  Other requests (a new /alina/voice, an /alina/cancel) may take   *)
(* their steps while an adapter call of a run is in flight: this is what   *)
(* the reads of cancel_token.cancelled after each call are written for.    *)
(***************************************************************************)
EXTENDS Integers, Sequences, FiniteSets, TLC

(* ----------------------------- bounds --------------------------------- *)

\* number of /alina/voice requests of one behaviour
MaxRuns == 2

\* AlinaAssistant.max_history_turns; the servers construct the assistants
\* with the default (8), scaled down here so that trimming happens within
\* MaxRuns requests
MaxHistoryTurns == 1

Runs == 1..MaxRuns

(* ----------------------------- inputs --------------------------------- *)

\* the session_id form field: "" asks the server to mint one
SessionInputs == {"", "s1"}

\* the lang form field
Langs == {"ru", "en", "th"}

\* the uploaded audio: "" is the empty file, any other value is an utterance
Utterances == {"hello"}
AudioInputs == {""} \cup Utterances

\* what the language model answers
Replies == {"hi"}

\* what the synthesizer returns for a non-empty text
Mp3 == "mp3"

(* --------------------------- pure helpers ----------------------------- *)

\* str.strip() on the texts of the model
Strip(s) == IF s = " " THEN "" ELSE s

\* base64.b64encode(b).decode("utf-8")
_b64(b) == IF b = "" THEN "" ELSE IF b = "mp3" THEN "bXAz" ELSE "Pz8/"

_system_prompt(lang) ==
    IF lang = "en" THEN "SYS_en"
    ELSE IF lang = "th" THEN "SYS_th"
    ELSE "SYS_ru"

_fallback_system_prompt(lang) ==
    IF lang = "th" THEN "FB_th"
    ELSE IF lang = "en" THEN "FB_en"
    ELSE "FB_ru"

\* which module-level assistant serves a request
_pick_lang_assistant(lang) ==
    IF lang = "en" THEN "en"
    ELSE IF lang = "th" THEN "th"
    ELSE "ru"

Turn(role, content) == [role |-> role, content |-> content]

\* AlinaAssistant._reset_history
_reset_history(lang) == << Turn("system", _system_prompt(lang)) >>

\* Python's h[-k:] : the last k elements, and the whole list when k = 0
LastSlice(h, k) ==
    IF k = 0 \/ k >= Len(h) THEN h ELSE SubSeq(h, Len(h) - k + 1, Len(h))

\* _trim_history with the comparison against keep left out of reach: the list
\* is cut only when it is two longer than keep
_trim_history_late(h, max_history_turns) ==
    IF Len(h) <= 1 THEN h
    ELSE LET keep == 1 + max_history_turns * 2
         IN  IF Len(h) > keep + 1
             THEN << h[1] >> \o LastSlice(h, keep - 1)
             ELSE h

\* a trim that keeps the last keep elements and not the first one
_trim_history_tail(h, max_history_turns) ==
    IF Len(h) <= 1 THEN h
    ELSE LET keep == 1 + max_history_turns * 2
         IN  IF Len(h) > keep THEN LastSlice(h, keep) ELSE h

\* AlinaAssistant._trim_history
_trim_history(h, max_history_turns) ==
    IF Len(h) <= 1 THEN h
    ELSE LET keep == 1 + max_history_turns * 2
         IN  IF Len(h) > keep
             THEN << h[1] >> \o LastSlice(h, keep - 1)
             ELSE h

\* an insertion of the turn right after the system turn instead of at the end
AppendTurn_front(h, turn) ==
    _trim_history(<< h[1], turn >> \o Tail(h), MaxHistoryTurns)

\* self.history.append(turn); self._trim_history()
AppendTurn(h, turn) == _trim_history(Append(h, turn), MaxHistoryTurns)

\* a synthesizer that returns no bytes for any text
tts_bytes_silent(text) == ""

\* tts_elevenlabs: empty text gives empty bytes without a request
tts_bytes(text) == IF Strip(text) = "" THEN "" ELSE Mp3

\* an id generator that hands out the same id to every request
uuid4_same(r) == "u" \o ToString(1)

\* str(uuid.uuid4()) of request r
uuid4(r) == "u" \o ToString(r)

(* ------------------------------ state --------------------------------- *)

VARIABLES
    assistant_available,  \* assistant_ru is not None (import succeeded)
    history,              \* assistant_<lang>.history
    active_cancels,       \* session_id -> token (named by its run), NoToken if absent
    cancelled,            \* CancelToken.cancelled of the token of each run
    pc,                   \* where each request is
    session_id,           \* local session_id of alina_voice
    lang,                 \* form field lang
    audio,                \* the uploaded bytes
    transcript,           \* local transcript of the pipeline
    answer,               \* local answer of the pipeline
    result,               \* JSON body of the response
    status,               \* HTTP status of the response, 0 before it
    cancel_status,        \* "status" of the last /alina/cancel response
    superseded_at         \* history variable: the stage a run was in when a
                          \* newer run first took over its session

vars == << assistant_available, history, active_cancels, cancelled, pc,
           session_id, lang, audio, transcript, answer, result, status,
           cancel_status, superseded_at >>

\* every session id a request can run under
SessionIds == (SessionInputs \ {""}) \cup {uuid4(r) : r \in Runs}

\* active_cancels.get(session_id) when the key is absent
NoToken == 0

Stages == {"idle", "stt", "llm", "tts", "fb_stt", "fb_llm", "fb_tts", "done"}

InFlight(r) == pc[r] \notin {"idle", "done"}

NoResult ==
    [transcript |-> "", answer |-> "", audio_base64 |-> "", history |-> << >>,
     cancelled |-> FALSE, timings_cancelled |-> FALSE,
     assistant_failed_fallback |-> FALSE, session_id |-> ""]

Init ==
    /\ assistant_available \in BOOLEAN
    /\ history = [l \in Langs |-> _reset_history(l)]
    /\ active_cancels = [s \in SessionIds |-> NoToken]
    /\ cancelled = [r \in Runs |-> FALSE]
    /\ pc = [r \in Runs |-> "idle"]
    /\ session_id = [r \in Runs |-> ""]
    /\ lang = [r \in Runs |-> "ru"]
    /\ audio = [r \in Runs |-> ""]
    /\ transcript = [r \in Runs |-> ""]
    /\ answer = [r \in Runs |-> ""]
    /\ result = [r \in Runs |-> NoResult]
    /\ status = [r \in Runs |-> 0]
    /\ cancel_status = ""
    /\ superseded_at = [r \in Runs |-> "none"]

(* ------------------------- alina_server.py ---------------------------- *)

\* a request that ends without the finally block
PopCancel_skipped(r) == active_cancels

\* finally: active_cancels.pop(session_id, None)
PopCancel(r) == [active_cancels EXCEPT ![session_id[r]] = NoToken]

\* result["session_id"] = session_id; return JSONResponse(content=result);
\* the locals of the request end with it
Respond(r, res) ==
    /\ result' = [result EXCEPT ![r] = [res EXCEPT !.session_id = session_id[r]]]
    /\ status' = [status EXCEPT ![r] = 200]
    /\ pc' = [pc EXCEPT ![r] = "done"]
    /\ active_cancels' = PopCancel(r)
    /\ transcript' = [transcript EXCEPT ![r] = ""]
    /\ answer' = [answer EXCEPT ![r] = ""]

\* except Exception: raise HTTPException(status_code=500, ...)
RespondError(r) ==
    /\ status' = [status EXCEPT ![r] = 500]
    /\ pc' = [pc EXCEPT ![r] = "done"]
    /\ active_cancels' = PopCancel(r)
    /\ transcript' = [transcript EXCEPT ![r] = ""]
    /\ answer' = [answer EXCEPT ![r] = ""]
    /\ UNCHANGED result

\* an inner except that tries the assistant again instead of the fallback
StartFallback_retry(r) ==
    /\ pc' = [pc EXCEPT ![r] = "stt"]
    /\ transcript' = [transcript EXCEPT ![r] = ""]
    /\ answer' = [answer EXCEPT ![r] = ""]
    /\ UNCHANGED << active_cancels, result, status >>

\* the inner except: the request goes on in _fallback_pipeline, whose first
\* statement awaits transcribe(...); the locals of handle_user_audio are gone
StartFallback(r) ==
    /\ pc' = [pc EXCEPT ![r] = "fb_stt"]
    /\ transcript' = [transcript EXCEPT ![r] = ""]
    /\ answer' = [answer EXCEPT ![r] = ""]
    /\ UNCHANGED << active_cancels, result, status >>

\* requests are numbered in the order of their arrival
NextToArrive(r) == pc[r] = "idle" /\ (IF r = 1 THEN TRUE ELSE pc[r - 1] # "idle")

\* a rejection of the empty file that comes after the token was installed
VoiceEmpty_late(r, sid, lg) ==
    /\ NextToArrive(r)
    /\ status' = [status EXCEPT ![r] = 400]
    /\ pc' = [pc EXCEPT ![r] = "done"]
    /\ active_cancels' =
          [active_cancels EXCEPT ![IF sid = "" THEN uuid4(r) ELSE sid] = r]
    /\ UNCHANGED << assistant_available, history, cancelled,
                    session_id, lang, audio, transcript, answer, result,
                    cancel_status, superseded_at >>

\* POST /alina/voice with an empty file
VoiceEmpty(r, sid, lg) ==
    /\ NextToArrive(r)
    /\ status' = [status EXCEPT ![r] = 400]
    /\ pc' = [pc EXCEPT ![r] = "done"]
    /\ UNCHANGED << assistant_available, history, active_cancels, cancelled,
                    session_id, lang, audio, transcript, answer, result,
                    cancel_status, superseded_at >>

\* POST /alina/voice up to the first adapter call
Voice(r, sid, lg, a) ==
    /\ NextToArrive(r)
    /\ a # ""
    /\ LET id == IF sid = "" THEN uuid4(r) ELSE sid
       IN  /\ session_id' = [session_id EXCEPT ![r] = id]
           /\ active_cancels' = [active_cancels EXCEPT ![id] = r]
           /\ superseded_at' =
                [q \in Runs |->
                    IF q # r /\ InFlight(q) /\ session_id[q] = id
                       /\ superseded_at[q] = "none"
                    THEN pc[q] ELSE superseded_at[q]]
    /\ cancelled' = [cancelled EXCEPT ![r] = FALSE]
    /\ lang' = [lang EXCEPT ![r] = lg]
    /\ audio' = [audio EXCEPT ![r] = a]
    /\ pc' = [pc EXCEPT ![r] = IF assistant_available THEN "stt" ELSE "fb_stt"]
    /\ UNCHANGED << assistant_available, history, transcript, answer, result,
                    status, cancel_status >>

\* a cancel endpoint that answers "cancelled" without looking the session up
alina_cancel_blind(sid) ==
    /\ cancel_status' = "cancelled"
    /\ UNCHANGED << assistant_available, history, active_cancels, cancelled,
                    pc, session_id, lang, audio, transcript, answer, result,
                    status, superseded_at >>

\* a cancel endpoint that flips the flag of the stored token
alina_cancel_toggle(sid) ==
    /\ LET tok == active_cancels[sid]
       IN  IF tok # NoToken
           THEN /\ cancelled' = [cancelled EXCEPT ![tok] = ~cancelled[tok]]
                /\ cancel_status' = "cancelled"
           ELSE /\ cancel_status' = "not_found"
                /\ UNCHANGED cancelled
    /\ UNCHANGED << assistant_available, history, active_cancels, pc,
                    session_id, lang, audio, transcript, answer, result,
                    status, superseded_at >>

\* a cancel endpoint that takes the token out of the store
alina_cancel_pop(sid) ==
    /\ LET tok == active_cancels[sid]
       IN  IF tok # NoToken
           THEN /\ cancelled' = [cancelled EXCEPT ![tok] = TRUE]
                /\ active_cancels' = [active_cancels EXCEPT ![sid] = NoToken]
                /\ cancel_status' = "cancelled"
           ELSE /\ cancel_status' = "not_found"
                /\ UNCHANGED << cancelled, active_cancels >>
    /\ UNCHANGED << assistant_available, history, pc,
                    session_id, lang, audio, transcript, answer, result,
                    status, superseded_at >>

\* POST /alina/cancel
alina_cancel(sid) ==
    /\ LET tok == active_cancels[sid]
       IN  IF tok # NoToken
           THEN /\ cancelled' = [cancelled EXCEPT ![tok] = TRUE]
                /\ cancel_status' = "cancelled"
           ELSE /\ cancel_status' = "not_found"
                /\ UNCHANGED cancelled
    /\ UNCHANGED << assistant_available, history, active_cancels, pc,
                    session_id, lang, audio, transcript, answer, result,
                    status, superseded_at >>

(* ---------------- AlinaAssistant.handle_user_audio -------------------- *)

Assistant(r) == _pick_lang_assistant(lang[r])

\* a cancelled result that carries audio all the same
CancelledResult_audio(r, t) ==
    [NoResult EXCEPT !.transcript = t, !.history = history[Assistant(r)],
                     !.audio_base64 = _b64(Mp3), !.cancelled = TRUE]

\* the dict returned when cancel_token.cancelled is seen
CancelledResult(r, t) ==
    [NoResult EXCEPT !.transcript = t, !.history = history[Assistant(r)],
                     !.cancelled = TRUE]

\* stt_transcribe returns t
SttReturn(r, t) ==
    /\ pc[r] = "stt"
    /\ t \in {"", audio[r]}
    /\ IF cancelled[r]
       THEN /\ Respond(r, CancelledResult(r, t))
            /\ UNCHANGED history
       ELSE IF Strip(t) = ""
       THEN \* raise RuntimeError("Empty transcript from STT")
            /\ StartFallback(r)
            /\ UNCHANGED history
       ELSE /\ history' = [history EXCEPT ![Assistant(r)] =
                              AppendTurn(@, Turn("user", Strip(t)))]
            /\ transcript' = [transcript EXCEPT ![r] = t]
            /\ pc' = [pc EXCEPT ![r] = "llm"]
            /\ UNCHANGED << active_cancels, result, status, answer >>
    /\ UNCHANGED << assistant_available, cancelled, session_id, lang, audio,
                    cancel_status, superseded_at >>

\* a failure handling that marks the run's own token cancelled
PrimaryRaise_selfcancel(r) ==
    /\ pc[r] \in {"stt", "llm", "tts"}
    /\ StartFallback(r)
    /\ cancelled' = [cancelled EXCEPT ![r] = TRUE]
    /\ UNCHANGED << assistant_available, history, session_id, lang,
                    audio, cancel_status, superseded_at >>

\* an adapter call of the primary pipeline raises
PrimaryRaise(r) ==
    /\ pc[r] \in {"stt", "llm", "tts"}
    /\ StartFallback(r)
    /\ UNCHANGED << assistant_available, history, cancelled, session_id, lang,
                    audio, cancel_status, superseded_at >>

\* llm_client.chat_with_alina_stream for a completion rep: the deltas are
\* collected until the token is seen cancelled (c), then joined and stripped;
\* rep arrives as one delta
chat_with_alina_stream(rep, c) == IF c THEN "" ELSE Strip(rep)

\* the parts of the returned text are collected until the token is seen
\* cancelled; a token that is not cancelled now was not cancelled during
\* the call either
_llm_streaming(rep, c) ==
    IF c THEN "" ELSE chat_with_alina_stream(rep, FALSE)

\* the language model returns rep (use_llm_stream=True)
LlmReturn(r, rep) ==
    /\ pc[r] = "llm"
    /\ IF cancelled[r]
       THEN /\ Respond(r, CancelledResult(r, transcript[r]))
            /\ UNCHANGED history
       ELSE /\ answer' = [answer EXCEPT ![r] =
                             Strip(_llm_streaming(rep, cancelled[r]))]
            /\ history' = [history EXCEPT ![Assistant(r)] =
                              AppendTurn(@, Turn("assistant",
                                  Strip(_llm_streaming(rep, cancelled[r]))))]
            /\ pc' = [pc EXCEPT ![r] = "tts"]
            /\ UNCHANGED << active_cancels, result, status, transcript >>
    /\ UNCHANGED << assistant_available, cancelled, session_id, lang, audio,
                    cancel_status, superseded_at >>

\* a return from synthesis that looks at the token once more and drops the
\* audio of a cancelled run
TtsReturn_checked(r) ==
    /\ pc[r] = "tts"
    /\ Respond(r, IF cancelled[r]
                  THEN CancelledResult(r, transcript[r])
                  ELSE [NoResult EXCEPT
                          !.transcript = transcript[r],
                          !.answer = answer[r],
                          !.audio_base64 = _b64(tts_bytes(answer[r])),
                          !.history = history[Assistant(r)]])
    /\ UNCHANGED << assistant_available, history, cancelled, session_id, lang,
                    audio, cancel_status, superseded_at >>

\* tts_elevenlabs returns
TtsReturn(r) ==
    /\ pc[r] = "tts"
    /\ Respond(r, [NoResult EXCEPT
                      !.transcript = transcript[r],
                      !.answer = answer[r],
                      !.audio_base64 = _b64(tts_bytes(answer[r])),
                      !.history = history[Assistant(r)]])
    /\ UNCHANGED << assistant_available, history, cancelled, session_id, lang,
                    audio, cancel_status, superseded_at >>

(* ----------------------- _fallback_pipeline --------------------------- *)

\* a message list built on the stored history of the assistant
FallbackMessages_stored(r, t) ==
    history[Assistant(r)] \o << Turn("user", t) >>

\* messages = [system prompt of the fallback, user turn]
FallbackMessages(r, t) ==
    << Turn("system", _fallback_system_prompt(lang[r])), Turn("user", t) >>

\* a fallback result that does not record the failure of the assistant
FallbackResult_unmarked(r) == NoResult

\* timings of a fallback result: assistant_failed_fallback is set by the
\* inner except of alina_voice, so only when the primary pipeline was tried
FallbackResult(r) ==
    [NoResult EXCEPT !.assistant_failed_fallback = assistant_available]

\* await transcribe(...) returns t
FbSttReturn(r, t) ==
    /\ pc[r] = "fb_stt"
    /\ t \in {"", audio[r]}
    /\ IF cancelled[r]
       THEN Respond(r, [FallbackResult(r) EXCEPT !.transcript = t,
                                                  !.timings_cancelled = TRUE])
       ELSE /\ pc' = [pc EXCEPT ![r] = "fb_llm"]
            /\ transcript' = [transcript EXCEPT ![r] = t]
            /\ UNCHANGED << active_cancels, result, status, answer >>
    /\ UNCHANGED << assistant_available, history, cancelled, session_id, lang,
                    audio, cancel_status, superseded_at >>

\* chat_with_alina(messages) returns rep
FbLlmReturn(r, rep) ==
    /\ pc[r] = "fb_llm"
    /\ IF cancelled[r]
       THEN Respond(r, [FallbackResult(r) EXCEPT
                          !.transcript = transcript[r],
                          !.answer = Strip(rep),
                          !.history = FallbackMessages(r, transcript[r])
                                        \o << Turn("assistant", Strip(rep)) >>,
                          !.timings_cancelled = TRUE])
       ELSE /\ pc' = [pc EXCEPT ![r] = "fb_tts"]
            /\ answer' = [answer EXCEPT ![r] = Strip(rep)]
            /\ UNCHANGED << active_cancels, result, status, transcript >>
    /\ UNCHANGED << assistant_available, history, cancelled, session_id, lang,
                    audio, cancel_status, superseded_at >>

\* tts_elevenlabs(answer) returns
FbTtsReturn(r) ==
    /\ pc[r] = "fb_tts"
    /\ Respond(r, [FallbackResult(r) EXCEPT
                      !.transcript = transcript[r],
                      !.answer = answer[r],
                      !.audio_base64 = _b64(tts_bytes(answer[r])),
                      !.history = FallbackMessages(r, transcript[r])
                                    \o << Turn("assistant", answer[r]) >>])
    /\ UNCHANGED << assistant_available, history, cancelled, session_id, lang,
                    audio, cancel_status, superseded_at >>

\* an adapter call of the fallback pipeline raises: HTTP 500
FallbackRaise(r) ==
    /\ pc[r] \in {"fb_stt", "fb_llm", "fb_tts"}
    /\ RespondError(r)
    /\ UNCHANGED << assistant_available, history, cancelled, session_id, lang,
                    audio, cancel_status, superseded_at >>

(* -------------------------- specification ----------------------------- *)

\* what a transcription can be: nothing recognised, or the utterance
Transcripts == {""} \cup Utterances

Next ==
    \/ \E r \in Runs, sid \in SessionInputs, lg \in Langs : VoiceEmpty(r, sid, lg)
    \/ \E r \in Runs, sid \in SessionInputs, lg \in Langs, a \in AudioInputs :
          Voice(r, sid, lg, a)
    \/ \E sid \in SessionIds : alina_cancel(sid)
    \/ \E r \in Runs, t \in Transcripts : SttReturn(r, t)
    \/ \E r \in Runs : PrimaryRaise(r)
    \/ \E r \in Runs, rep \in Replies : LlmReturn(r, rep)
    \/ \E r \in Runs : TtsReturn(r)
    \/ \E r \in Runs, t \in Transcripts : FbSttReturn(r, t)
    \/ \E r \in Runs, rep \in Replies : FbLlmReturn(r, rep)
    \/ \E r \in Runs : FbTtsReturn(r)
    \/ \E r \in Runs : FallbackRaise(r)

Spec == Init /\ [][Next]_vars

\* the adapter call that run r is waiting for returns or raises
RunStep(r) ==
    \/ \E t \in Transcripts : SttReturn(r, t) \/ FbSttReturn(r, t)
    \/ \E rep \in Replies : LlmReturn(r, rep) \/ FbLlmReturn(r, rep)
    \/ TtsReturn(r) \/ FbTtsReturn(r)
    \/ PrimaryRaise(r) \/ FallbackRaise(r)

\* every adapter call eventually returns or fails, and the event loop then
\* resumes the request that awaited it
FairSpec == Spec /\ \A r \in Runs : WF_vars(RunStep(r))

TypeOK ==
    /\ pc \in [Runs -> Stages]
    /\ cancelled \in [Runs -> BOOLEAN]
    /\ active_cancels \in [SessionIds -> Runs \cup {NoToken}]
    /\ cancel_status \in {"", "cancelled", "not_found"}
    /\ \A l \in Langs : Len(history[l]) >= 1

(* ------------------------------ claims -------------------------------- *)

\* the user/assistant turns of a history
NonSystem(h) == SubSeq(h, 2, Len(h))

InitialHistory == [l \in Langs |-> _reset_history(l)]

Quiescent == \A r \in Runs : ~InFlight(r)

OnlyArrived(r) == \A q \in Runs \ {r} : pc[q] = "idle"

\* user, assistant, user, assistant, ... in even number
WellPaired(h) ==
    /\ (Len(h) - 1) % 2 = 0
    /\ \A i \in 2..Len(h) :
          h[i].role = (IF i % 2 = 0 THEN "user" ELSE "assistant")

\* C1: whenever no request is in flight, every history holds an even number
\* of non-system turns, alternating user, assistant from a user turn.
C1_PairingInvariant ==
    Quiescent => \A l \in Langs : WellPaired(history[l])

\* C2: a session never has two in-flight runs whose handles are both
\* unsignalled: a new run signals the handle it replaces.
C2_AtMostOneUnsignalledRun ==
    \A s \in SessionIds :
        Cardinality({r \in Runs : InFlight(r) /\ session_id[r] = s
                                   /\ ~cancelled[r]}) <= 1

\* C3: a run that finishes while another run's handle is installed for its
\* session leaves that handle installed.
C3_EndRunOwnership ==
    [][\A r \in Runs :
          (InFlight(r) /\ pc'[r] = "done"
             /\ active_cancels[session_id[r]] # r)
          => active_cancels'[session_id[r]] = active_cancels[session_id[r]]]_vars

\* C4: a session has an installed handle exactly when one of its runs is in
\* flight.
C4_HandleIffInFlight ==
    \A s \in SessionIds :
        (active_cancels[s] # NoToken)
            <=> (\E r \in Runs : InFlight(r) /\ session_id[r] = s)

\* C5: when Transcribe or GenerateReply fails in the only request that has
\* arrived so far, every history is what it was before the request.
C5_HistoryUnchangedOnFailure ==
    [][\A r \in Runs :
          (pc[r] \in {"stt", "llm"} /\ pc'[r] = "fb_stt" /\ OnlyArrived(r))
          => history' = InitialHistory]_vars

\* C6: when the only request that has arrived so far sees its handle
\* signalled after GenerateReply returned, every history is what it was
\* before the request.
C6_CancelAfterReplyCommitsNothing ==
    [][\A r \in Runs :
          (pc[r] = "llm" /\ cancelled[r] /\ pc'[r] = "done" /\ OnlyArrived(r))
          => history' = InitialHistory]_vars

\* C7: every history holds at most 2 * max_history_turns non-system turns.
C7_BoundedHistory ==
    \A l \in Langs : Len(NonSystem(history[l])) <= 2 * MaxHistoryTurns

\* C7 witness: a full history from which trimming has dropped the oldest turn
C7_Witness ==
    \E l \in Langs :
        /\ Len(NonSystem(history[l])) = 2 * MaxHistoryTurns
        /\ history[l][2].role = "assistant"

\* C8: a run that was inside GenerateReply when a newer run started on its
\* session has its handle signalled, and ends with cancelled = true.
C8_ScenarioD ==
    \A r \in Runs :
        superseded_at[r] = "llm"
        => /\ cancelled[r]
           /\ pc[r] \notin {"tts", "fb_stt", "fb_llm", "fb_tts"}
           /\ pc[r] = "done" => (status[r] = 200 /\ result[r].cancelled)

\* C9: the prompt of a run whose session no other request has used holds
\* nothing but the system turn and the run's own user turn.
C9_SessionIndependence ==
    \A r \in Runs :
        (pc[r] = "llm" /\ \A q \in Runs \ {r} : session_id[q] # session_id[r])
        => history[Assistant(r)]
             = _reset_history(Assistant(r)) \o << Turn("user", transcript[r]) >>

\* C10: a run appends a turn to a history only while its own handle is the
\* one installed for its session.
C10_OnlyOwnerAppends ==
    [][\A r \in Runs :
          ((pc[r] = "stt" /\ pc'[r] = "llm") \/ (pc[r] = "llm" /\ pc'[r] = "tts"))
          => active_cancels[session_id[r]] = r]_vars

\* C11: a run whose transcription comes back blank ends there with a
\* successful response carrying an empty reply and empty audio; it makes no
\* GenerateReply or Synthesize call, does not transcribe again, and leaves
\* every history as it was.
C11_SilenceShortCircuit ==
    [][\A r \in Runs :
          (SttReturn(r, "") \/ FbSttReturn(r, ""))
              => /\ pc'[r] = "done"
                 /\ status'[r] = 200
                 /\ result'[r].answer = ""
                 /\ result'[r].audio_base64 = ""
                 /\ history' = history]_vars

\* C12: once a run has ended, whether with a result, a cancelled result or
\* an error, no entry of the store holds the handle it installed.
C12_HandleReleased ==
    \A s \in SessionIds :
        active_cancels[s] # NoToken => pc[active_cancels[s]] # "done"

\* one run ended with a server error and another with a cancelled result,
\* and the entries they installed are gone
C12_Witness ==
    \E r, q \in Runs :
        /\ pc[r] = "done" /\ status[r] = 500
        /\ pc[q] = "done" /\ status[q] = 200 /\ result[q].cancelled
        /\ active_cancels[session_id[r]] = NoToken
        /\ active_cancels[session_id[q]] = NoToken

\* C13: a cancel request for a session that has an entry in the store
\* signals the handle stored there and answers "cancelled"; for a session
\* without an entry it signals nothing and answers "not_found".
C13_CancelContract ==
    [][\A sid \in SessionIds :
          alina_cancel(sid)
              => IF active_cancels[sid] # NoToken
                 THEN /\ cancelled'[active_cancels[sid]]
                      /\ cancel_status' = "cancelled"
                 ELSE /\ cancelled' = cancelled
                      /\ cancel_status' = "not_found"]_vars

\* a run in flight has been signalled by a cancel request, and a later
\* cancel request was answered "not_found"
C13_Witness ==
    /\ cancel_status = "not_found"
    /\ \E r \in Runs : InFlight(r) /\ cancelled[r]

\* C14: when a transcription returns a non-blank transcript to a run whose
\* handle is signalled, the run ends with a result that carries the
\* transcript, an empty reply, empty audio and cancelled = true, without a
\* GenerateReply or Synthesize call, and every history stays as it was.
C14_CancelAfterTranscription ==
    [][\A r \in Runs :
          (cancelled[r] /\ (SttReturn(r, audio[r]) \/ FbSttReturn(r, audio[r])))
              => /\ pc'[r] = "done"
                 /\ status'[r] = 200
                 /\ result'[r].transcript = audio[r]
                 /\ result'[r].answer = ""
                 /\ result'[r].audio_base64 = ""
                 /\ result'[r].cancelled
                 /\ history' = history]_vars

\* C15: when GenerateReply returns a reply to a run whose handle is
\* signalled, the run ends with a result that carries the transcript, that
\* reply text, empty audio and cancelled = true, without a Synthesize call.
C15_CancelAfterReplyResult ==
    [][\A r \in Runs, rep \in Replies :
          (cancelled[r] /\ (LlmReturn(r, rep) \/ FbLlmReturn(r, rep)))
              => /\ pc'[r] = "done"
                 /\ status'[r] = 200
                 /\ result'[r].transcript = transcript[r]
                 /\ result'[r].answer = Strip(rep)
                 /\ result'[r].audio_base64 = ""
                 /\ result'[r].cancelled]_vars

\* C16: what the GenerateReply call in flight for a run hands back is the
\* whole reply of the model, whether or not the run's handle has been
\* signalled during the call; the signal neither aborts nor shortens it.
C16_NoPreemptionInsideCall ==
    \A r \in Runs, rep \in Replies :
        pc[r] = "llm"
            => _llm_streaming(rep, cancelled[r]) = chat_with_alina_stream(rep, FALSE)

\* C17: a run whose handle has been signalled starts no further adapter
\* call: the call in flight may complete, and the next step of the run ends
\* it.  (A Synthesize call issued before the signal is the call in flight.)
C17_BoundedCancellationLatency ==
    [][\A r \in Runs :
          (cancelled[r] /\ pc'[r] # pc[r]) => pc'[r] = "done"]_vars

\* a boundary check of run r finds the handle signalled: an adapter call of
\* the run returns while cancelled[r] holds
ObservesCancel(r) ==
    /\ cancelled[r]
    /\ \/ \E t \in Transcripts : SttReturn(r, t) \/ FbSttReturn(r, t)
       \/ \E rep \in Replies : LlmReturn(r, rep) \/ FbLlmReturn(r, rep)

\* C18: a run that finds its handle signalled at a boundary check ends with
\* a successful response whose result has cancelled = true, never with an
\* HTTP error.
C18_CancellationNeverAnError ==
    [][\A r \in Runs :
          ObservesCancel(r)
              => /\ pc'[r] = "done"
                 /\ status'[r] = 200
                 /\ result'[r].cancelled]_vars

\* C19: the step in which an adapter call of a run fails, in either
\* pipeline and at any stage, ends the run with a server error; the run is
\* never answered with a result afterwards.
C19_AdapterFailureIsAnError ==
    [][\A r \in Runs :
          (PrimaryRaise(r) \/ FallbackRaise(r))
              => /\ pc'[r] = "done"
                 /\ status'[r] = 500]_vars

\* C20: every change of a history appends one turn at its end and removes
\* turns only from the front of the non-system turns: afterwards the system
\* turn is the same and the non-system turns are exactly the most recent
\* 2 * max_history_turns of the old turns followed by the new one (all of
\* them if there are fewer), unchanged and in their order.
C20_FifoAppendOnly ==
    [][\A l \in Langs :
          history'[l] # history[l]
              => LET old == NonSystem(history[l])
                     new == NonSystem(history'[l])
                     cap == 2 * MaxHistoryTurns
                 IN  IF Len(new) = 0 THEN FALSE
                     ELSE LET all == Append(old, new[Len(new)])
                              kept == IF Len(all) > cap THEN cap ELSE Len(all)
                          IN  /\ history'[l][1] = history[l][1]
                              /\ new = SubSeq(all, Len(all) - kept + 1, Len(all))]_vars

\* a run is in its GenerateReply call, its user turn is the last of a full
\* history, and trimming has dropped the oldest user turn to make room
C20_Witness ==
    \E r \in Runs :
        /\ pc[r] = "llm"
        /\ LET h == history[Assistant(r)]
           IN  /\ Len(h) = 1 + 2 * MaxHistoryTurns
               /\ h[2].role = "assistant"
               /\ h[Len(h)] = Turn("user", transcript[r])

\* C21: the turn list a run passes to GenerateReply is the system turn of
\* its language, then the turns the history held before the run (all of
\* them, in order), then the run's user turn as the last entry; its first
\* entry after the system turn is a user turn.
C21_PromptConstruction ==
    [][\A r \in Runs :
          (pc[r] = "stt" /\ pc'[r] = "llm")
              => LET h == history[Assistant(r)]
                     prompt == history'[Assistant(r)]
                 IN  /\ prompt = << Turn("system", _system_prompt(Assistant(r))) >>
                                   \o NonSystem(h)
                                   \o << Turn("user", Strip(transcript'[r])) >>
                     /\ prompt[2].role = "user"]_vars

\* no other request has used the assistant of run r
Undisturbed(r) ==
    \A q \in Runs \ {r} :
        pc[q] = "idle" \/ status[q] = 400 \/ Assistant(q) # Assistant(r)

\* run r went through the primary pipeline without a cancel, a blank
\* transcript or a failing adapter, and has been answered
HappyPath(r) ==
    /\ pc[r] = "done" /\ status[r] = 200
    /\ ~cancelled[r] /\ ~result[r].cancelled /\ ~result[r].timings_cancelled
    /\ assistant_available /\ ~result[r].assistant_failed_fallback

C23_SynthesisFailure ==
    [][\A r \in Runs :
          (pc[r] = "tts" /\ PrimaryRaise(r))
              => /\ pc'[r] = "done"
                 /\ status'[r] = 500
                 /\ active_cancels'[session_id[r]] = NoToken
                 /\ history' = history
                 /\ Undisturbed(r)
                      => history'[Assistant(r)]
                           = _reset_history(Assistant(r))
                               \o << Turn("user", transcript[r]),
                                     Turn("assistant", answer[r]) >>]_vars

\* C24: a run that passes the check after reply generation goes on to
\* Synthesize, and when that call returns the run ends with a successful
\* result that carries the audio and no cancelled flag, whether or not its
\* handle has been signalled meanwhile.
C24_SynthesisIgnoresLateCancel ==
    [][\A r \in Runs :
          /\ (~cancelled[r] /\ \E rep \in Replies : LlmReturn(r, rep))
                => pc'[r] = "tts"
          /\ (~cancelled[r] /\ \E rep \in Replies : FbLlmReturn(r, rep))
                => pc'[r] = "fb_tts"
          /\ (TtsReturn(r) \/ FbTtsReturn(r))
                => /\ pc'[r] = "done"
                   /\ status'[r] = 200
                   /\ result'[r].audio_base64 # ""
                   /\ result'[r].answer = answer[r]
                   /\ ~result'[r].cancelled
                   /\ ~result'[r].timings_cancelled]_vars

\* a run whose handle was signalled during synthesis has been answered with
\* audio and without a cancelled flag
C24_Witness ==
    \E r \in Runs :
        /\ pc[r] = "done" /\ status[r] = 200
        /\ cancelled[r]
        /\ result[r].audio_base64 # ""
        /\ ~result[r].cancelled /\ ~result[r].timings_cancelled
        /\ ~result[r].assistant_failed_fallback /\ assistant_available

\* C25: a voice request with an empty file is answered with status 400 and
\* changes nothing else: the store of tokens, every token, every history
\* and every other request are as before, and no adapter call is started.
C25_EmptyInputRejected ==
    [][\A r \in Runs :
          (\E sid \in SessionInputs, lg \in Langs : VoiceEmpty(r, sid, lg))
              => /\ status'[r] = 400
                 /\ pc'[r] = "done"
                 /\ active_cancels' = active_cancels
                 /\ cancelled' = cancelled
                 /\ history' = history
                 /\ session_id' = session_id
                 /\ result' = result
                 /\ \A q \in Runs \ {r} : pc'[q] = pc[q] /\ status'[q] = status[q]]_vars

\* an empty request was rejected while another run was in flight, whose
\* token is still the one installed for its session
C25_Witness ==
    \E r, q \in Runs :
        /\ status[r] = 400 /\ pc[r] = "done"
        /\ InFlight(q) /\ active_cancels[session_id[q]] = q /\ ~cancelled[q]

\* C26: a token that is cancelled stays cancelled in every later state, and
\* a cancel request for a session whose stored token is already cancelled
\* leaves every token, the store and every run as they are.
C26_CancelIdempotentIrreversible ==
    [][/\ \A r \in Runs : cancelled[r] => cancelled'[r]
       /\ \A sid \in SessionIds :
             (alina_cancel(sid) /\ active_cancels[sid] # NoToken
                                /\ cancelled[active_cancels[sid]])
                 => /\ cancelled' = cancelled
                    /\ active_cancels' = active_cancels
                    /\ pc' = pc
                    /\ history' = history
                    /\ cancel_status' = "cancelled"]_vars

\* a token that has been cancelled is still installed for a run in flight,
\* and the last cancel request was answered "cancelled"
C26_Witness ==
    \E r \in Runs :
        /\ InFlight(r) /\ cancelled[r]
        /\ active_cancels[session_id[r]] = r
        /\ cancel_status = "cancelled"

\* C27: a token goes from not cancelled to cancelled only in a step of the
\* cancel endpoint for the session it is stored under, or in the arrival of
\* a new request on its run's session; no step of the primary or fallback
\* pipeline cancels a token.
C27_OnlyCancelOrSupersedeSignals ==
    [][\A r \in Runs :
          (~cancelled[r] /\ cancelled'[r])
              => \/ /\ pc' = pc
                    /\ \E sid \in SessionIds :
                          alina_cancel(sid) /\ active_cancels[sid] = r
                 \/ \E q \in Runs \ {r} :
                       /\ pc[q] = "idle" /\ pc'[q] \in {"stt", "fb_stt"}
                       /\ session_id'[q] = session_id[r]]_vars

\* the token of a run in flight was cancelled through the endpoint while
\* another run in flight keeps an untouched token
C27_Witness ==
    \E r, q \in Runs :
        /\ InFlight(r) /\ cancelled[r]
        /\ InFlight(q) /\ ~cancelled[q]
        /\ session_id[q] # session_id[r]

\* the adapter a stage of either pipeline is calling: 1 Transcribe,
\* 2 GenerateReply, 3 Synthesize; 0 before the run and 4 after it
StageRank(p) ==
    IF p = "idle" THEN 0
    ELSE IF p \in {"stt", "fb_stt"} THEN 1
    ELSE IF p \in {"llm", "fb_llm"} THEN 2
    ELSE IF p \in {"tts", "fb_tts"} THEN 3
    ELSE 4

\* C28: a run calls Transcribe, then GenerateReply, then Synthesize, each
\* at most once and each only after the call before it returned; it ends
\* once, with one response, which is not changed afterwards.
C28_StageOrder ==
    [][\A r \in Runs :
          /\ pc'[r] # pc[r]
                => \/ pc'[r] = "done" /\ status'[r] \in {200, 400, 500}
                   \/ StageRank(pc'[r]) = StageRank(pc[r]) + 1
          /\ pc[r] = "done"
                => /\ pc'[r] = "done"
                   /\ status'[r] = status[r]
                   /\ result'[r] = result[r]]_vars

\* C29: provided every adapter call eventually returns or fails, every run
\* that has started eventually ends, and then the store no longer holds
\* its token.
C29_Termination ==
    \A r \in Runs :
        InFlight(r) ~> (pc[r] = "done" /\ \A s \in SessionIds : active_cancels[s] # r)

\* a run that went through the fallback after a failure of the primary
\* pipeline has ended and its token is gone, while another run is in flight
C29_Witness ==
    \E r, q \in Runs :
        /\ pc[r] = "done" /\ status[r] \in {200, 500}
        /\ assistant_available /\ result[r].assistant_failed_fallback
        /\ \A s \in SessionIds : active_cancels[s] # r
        /\ InFlight(q)

\* C30: a voice request with a non-empty session_id runs under that id; one
\* with an empty session_id runs under a new non-empty id that no request
\* has used and no token is stored under; either way the request's token is
\* installed under the id, the pipeline starts, and a result returns the id.
C30_SessionResolution ==
    [][\A r \in Runs :
          /\ \A sid \in SessionInputs :
                (\E lg \in Langs, a \in AudioInputs : Voice(r, sid, lg, a))
                    => /\ session_id'[r] # ""
                       /\ IF sid # ""
                          THEN session_id'[r] = sid
                          ELSE /\ session_id'[r] \notin SessionInputs
                               /\ \A q \in Runs \ {r} :
                                     session_id[q] # session_id'[r]
                               /\ active_cancels[session_id'[r]] = NoToken
                       /\ active_cancels'[session_id'[r]] = r
                       /\ pc'[r] \in {"stt", "fb_stt"}
          /\ (pc'[r] = "done" /\ status'[r] = 200)
                => result'[r].session_id = session_id[r]]_vars

\* one request has been answered under the id it sent and another under
\* an id minted for it
C30_Witness ==
    \E r, q \in Runs :
        /\ pc[r] = "done" /\ status[r] = 200 /\ result[r].session_id = "s1"
        /\ pc[q] = "done" /\ status[q] = 200 /\ result[q].session_id = uuid4(q)

\* the stages of the fallback pipeline
FallbackStages == {"fb_stt", "fb_llm", "fb_tts"}

\* C31: when a call of the primary assistant raises, at any stage, the
\* request is not answered with an error: the fallback pipeline starts at
\* its transcription with the same audio and the same token; a result of
\* the fallback after such a failure carries assistant_failed_fallback in
\* its timings; and a request is answered with status 500 only when a call
\* of the fallback pipeline raises.
C31_FallbackOnAssistantFailure ==
    [][\A r \in Runs :
          /\ PrimaryRaise(r)
                => /\ pc'[r] = "fb_stt"
                   /\ status'[r] = 0
                   /\ audio'[r] = audio[r]
                   /\ session_id'[r] = session_id[r]
                   /\ active_cancels' = active_cancels
                   /\ cancelled' = cancelled
          /\ (assistant_available /\ pc[r] \in FallbackStages
                /\ pc'[r] = "done" /\ status'[r] = 200)
                => result'[r].assistant_failed_fallback
          /\ (status[r] # 500 /\ status'[r] = 500)
                => pc[r] \in FallbackStages /\ FallbackRaise(r)]_vars

\* after a failure of the assistant a request has been answered by the
\* fallback pipeline with transcript, reply and audio, the failure recorded
C31_Witness ==
    \E r \in Runs :
        /\ pc[r] = "done" /\ status[r] = 200
        /\ result[r].assistant_failed_fallback
        /\ result[r].transcript = audio[r]
        /\ result[r].answer \in Replies
        /\ result[r].audio_base64 # ""

\* C32: in every reachable state each assistant's history has exactly one
\* system turn, as its first element, and it is the system prompt of the
\* assistant's language, as set at construction.
C32_SystemTurnInvariant ==
    \A l \in Langs :
        /\ Len(history[l]) >= 1
        /\ history[l][1] = Turn("system", _system_prompt(l))
        /\ \A i \in 2..Len(history[l]) : history[l][i].role # "system"

\* all requests have ended, and a history from which trimming removed the
\* oldest turn still starts with its system turn
C32_Witness ==
    /\ Quiescent
    /\ \E l \in Langs :
          /\ Len(history[l]) = 1 + 2 * MaxHistoryTurns
          /\ history[l][1].role = "system"
          /\ history[l][2].role = "assistant"

\* a cancel request for sid changes no store entry, no history, no run and
\* no token other than the one stored under sid
CancelFrame ==
    \A sid \in SessionIds :
        alina_cancel(sid)
            => /\ active_cancels' = active_cancels
               /\ history' = history
               /\ pc' = pc /\ status' = status /\ result' = result
               /\ \A r \in Runs :
                     r # active_cancels[sid] => cancelled'[r] = cancelled[r]

\* C33 as stated: the frame of cancel, and a cancelled token stays stored
\* under its session until its own run ends.
C33_CancelFrameUntilRunEnds ==
    [][/\ CancelFrame
       /\ \A r \in Runs, s \in SessionIds :
             (active_cancels[s] = r /\ cancelled[r] /\ active_cancels'[s] # r)
                 => pc'[r] = "done"]_vars

\* C33 amended: the frame of cancel, and a cancelled token stays stored
\* under its session until a run of that session ends or a new request
\* arrives on that session.
C33_CancelFrame ==
    [][/\ CancelFrame
       /\ \A r \in Runs, s \in SessionIds :
             (active_cancels[s] = r /\ cancelled[r] /\ active_cancels'[s] # r)
                 => \E q \in Runs :
                       /\ session_id'[q] = s
                       /\ \/ pc[q] # "done" /\ pc'[q] = "done"
                          \/ pc[q] = "idle" /\ pc'[q] \in {"stt", "fb_stt"}]_vars

\* a run whose token was cancelled is still in flight while the entry of
\* its session holds the token of a newer request
C33_Witness ==
    \E r, q \in Runs :
        /\ r # q
        /\ InFlight(r) /\ cancelled[r]
        /\ InFlight(q) /\ ~cancelled[q]
        /\ session_id[q] = session_id[r]
        /\ active_cancels[session_id[r]] = q

\* C34: a result of the primary assistant with cancelled = true has empty
\* audio and is returned from a check before the Synthesize call; a result
\* of the primary assistant with audio has no cancelled flag and is
\* returned after the Synthesize call, the user and the assistant turn of
\* the run having been appended before it.
C34_ResultConsistency ==
    [][\A r \in Runs :
          (pc[r] \in {"stt", "llm", "tts"} /\ pc'[r] = "done")
              => /\ result'[r].cancelled
                    => /\ result'[r].audio_base64 = ""
                       /\ pc[r] \in {"stt", "llm"}
                 /\ result'[r].audio_base64 # ""
                    => /\ ~result'[r].cancelled
                       /\ pc[r] = "tts"
                       /\ result'[r].answer = answer[r]
                       /\ result'[r].history = history[Assistant(r)]
                       /\ Undisturbed(r)
                            => result'[r].history
                                 = _reset_history(Assistant(r))
                                     \o << Turn("user", transcript[r]),
                                           Turn("assistant", answer[r]) >>]_vars

\* the primary assistant has answered one run with a cancelled result that
\* carries a transcript and another run with audio
C34_Witness ==
    \E r, q \in Runs :
        /\ assistant_available
        /\ pc[r] = "done" /\ status[r] = 200
        /\ result[r].cancelled /\ result[r].transcript # ""
        /\ pc[q] = "done" /\ status[q] = 200
        /\ ~result[q].assistant_failed_fallback
        /\ result[q].audio_base64 # ""

\* C35: a step of the fallback pipeline changes no assistant's history, no
\* token and no entry of the store (the entry of the run's session is
\* removed by alina_voice when the run ends); the history in its result is
\* empty when the run was cancelled after transcription, and otherwise is
\* the fallback's system prompt, the user turn with the transcript and the
\* assistant turn with the reply, whatever the stored histories hold.
C35_FallbackStateless ==
    [][\A r \in Runs :
          (pc[r] \in FallbackStages /\ pc'[r] # pc[r])
              => /\ history' = history
                 /\ cancelled' = cancelled
                 /\ active_cancels'
                      = IF pc'[r] = "done" THEN PopCancel(r) ELSE active_cancels
                 /\ (pc'[r] = "done" /\ status'[r] = 200)
                      => IF pc[r] = "fb_stt"
                         THEN result'[r].history = << >>
                         ELSE /\ result'[r].answer \in Replies
                              /\ result'[r].history
                                   = << Turn("system", _fallback_system_prompt(lang[r])),
                                        Turn("user", transcript[r]),
                                        Turn("assistant", result'[r].answer) >>]_vars

\* the fallback has answered a run with its own three-turn history while
\* the stored history of the run's language holds turns of its own
C35_Witness ==
    \E r \in Runs :
        /\ pc[r] = "done" /\ status[r] = 200
        /\ result[r].assistant_failed_fallback
        /\ Len(result[r].history) = 3
        /\ result[r].history[1].content = _fallback_system_prompt(lang[r])
        /\ Len(history[Assistant(r)]) > 1

====
